---------------------------- MODULE Spec2Model ----------------------------
(***************************************************************************)
(* Deadmanswitch encryption: key derivation, fingerprint derivation and    *)
(* AES-256-CBC text encryption in two environments (src/native.ts and the  *)
(* browser module src/unnamed/part_000).                                   *)
(*                                                                         *)
(* The crypto provider is injected (nativeInit / browserInit).  It is      *)
(* modelled as a conforming implementation of Node's crypto module and of  *)
(* WebCrypto over a scaled-down byte: a byte is 4 bits (0..15), a base64   *)
(* digit is 3 bits, so that 3 bytes <-> 4 digits exactly as in real base64,*)
(* and the cipher block is BlockSize bytes.  JS strings are sequences of   *)
(* characters; a character is a TLA+ string.                               *)
(***************************************************************************)
EXTENDS Integers, Sequences, FiniteSets, TLC

\* ------------------------------------------------------------------ bounds
\* Cipher block and IV length in bytes (16 in AES-CBC), scaled down.
BlockSize == 2
\* Derived key length in bytes (const bytesize = 32), scaled down.
bytesize == 4
\* PBKDF2 iteration count (const iterations = 100000), scaled down.
iterations == 2
\* Longest plaintext, in characters.
MaxLen == 2

\* ------------------------------------------------------------- byte layer
ByteMod == 8 + 8
Byte == 0 .. (ByteMod - 1)

\* One-byte (ASCII) characters: byte b encodes AsciiChars[b + 1].
AsciiChars == <<"0", "1", "2", "3", "4", "5", "6", "7", "=", "a">>
IsAscii(b) == b < Len(AsciiChars)
IsCont(b) == b \in {10, 11, 12}
IsLead(b) == b \in {13, 14, 15}

AsciiByte(c) == CHOOSE b \in 0 .. (Len(AsciiChars) - 1) : AsciiChars[b + 1] = c

\* The UTF-8 encoding of one character.  "E" is an ordinary two-byte
\* character, "BOM" is U+FEFF, "REP" is U+FFFD, "SUR" is an unpaired
\* surrogate code unit, which a UTF-8 encoder replaces by U+FFFD.
CharBytes(c) ==
    CASE c = "E" -> <<13, 10>>
      [] c = "BOM" -> <<14, 10>>
      [] c = "REP" -> <<14, 11>>
      [] c = "SUR" -> <<14, 11>>
      [] OTHER -> <<AsciiByte(c)>>

RECURSIVE Utf8Encode(_)
Utf8Encode(s) ==
    IF s = <<>> THEN <<>> ELSE CharBytes(Head(s)) \o Utf8Encode(Tail(s))

\* The character a lead byte and a continuation byte decode to.
PairChar(lead, cont) ==
    CASE lead = 13 /\ cont = 10 -> "E"
      [] lead = 14 /\ cont = 10 -> "BOM"
      [] OTHER -> "REP"

\* A streaming UTF-8 decoder (Node's StringDecoder): decodes the bytes, with
\* `lead` the lead byte kept from the previous chunk (-1: none); returns the
\* characters and the lead byte kept for the next chunk.
RECURSIVE Utf8Write(_, _)
Utf8Write(lead, bytes) ==
    IF bytes = <<>> THEN [out |-> <<>>, lead |-> lead]
    ELSE LET b == Head(bytes) IN
         IF lead >= 0 /\ IsCont(b)
         THEN LET r == Utf8Write(-1, Tail(bytes)) IN
              [out |-> <<PairChar(lead, b)>> \o r.out, lead |-> r.lead]
         ELSE IF lead >= 0
         THEN LET r == Utf8Write(-1, bytes) IN
              [out |-> <<"REP">> \o r.out, lead |-> r.lead]
         ELSE IF IsAscii(b)
         THEN LET r == Utf8Write(-1, Tail(bytes)) IN
              [out |-> <<AsciiChars[b + 1]>> \o r.out, lead |-> r.lead]
         ELSE IF IsCont(b)
         THEN LET r == Utf8Write(-1, Tail(bytes)) IN
              [out |-> <<"REP">> \o r.out, lead |-> r.lead]
         ELSE Utf8Write(b, Tail(bytes))

\* StringDecoder.end: the last chunk; a lead byte left over becomes U+FFFD.
Utf8End(lead, bytes) ==
    LET r == Utf8Write(lead, bytes) IN
    IF r.lead >= 0 THEN r.out \o <<"REP">> ELSE r.out

\* new TextDecoder().decode(bytes): one-shot UTF-8 decoding; with the default
\* options (ignoreBOM false) a leading byte order mark is removed.
TextDecoderDecode(bytes) ==
    LET s == Utf8End(-1, bytes) IN
    IF s # <<>> /\ Head(s) = "BOM" THEN Tail(s) ELSE s

\* ----------------------------------------------------------- base64 layer
DigitChars == <<"0", "1", "2", "3", "4", "5", "6", "7">>
IsDigitChar(c) == \E d \in 1 .. Len(DigitChars) : DigitChars[d] = c
DigitValue(c) == (CHOOSE d \in 1 .. Len(DigitChars) : DigitChars[d] = c) - 1
DigitChar(v) == DigitChars[v + 1]

\* Three bytes (12 bits) as four digits.
EncodeGroup(b1, b2, b3) ==
    LET n == b1 * ByteMod * ByteMod + b2 * ByteMod + b3 IN
    <<DigitChar(n \div 512), DigitChar((n \div 64) % 8),
      DigitChar((n \div 8) % 8), DigitChar(n % 8)>>

\* The digits of a whole number of three-byte groups, without padding.
RECURSIVE EncodeGroups(_)
EncodeGroups(bytes) ==
    IF Len(bytes) < 3 THEN <<>>
    ELSE EncodeGroup(bytes[1], bytes[2], bytes[3])
         \o EncodeGroups(SubSeq(bytes, 4, Len(bytes)))

\* The last, incomplete group with its "=" padding.
EncodeTail(bytes) ==
    CASE Len(bytes) = 1 ->
           LET n == bytes[1] * 4 IN
           <<DigitChar(n \div 8), DigitChar(n % 8), "=", "=">>
      [] Len(bytes) = 2 ->
           LET n == (bytes[1] * ByteMod + bytes[2]) * 2 IN
           <<DigitChar(n \div 64), DigitChar((n \div 8) % 8), DigitChar(n % 8), "=">>
      [] OTHER -> <<>>

\* buffer.toString('base64')
ToBase64(bytes) ==
    LET whole == (Len(bytes) \div 3) * 3 IN
    EncodeGroups(SubSeq(bytes, 1, whole))
    \o EncodeTail(SubSeq(bytes, whole + 1, Len(bytes)))

\* The base64 digits of a string as Node reads them: a character outside
\* the alphabet is skipped, the first "=" ends the decoding.
RECURSIVE LegalDigits(_)
LegalDigits(s) ==
    IF s = <<>> \/ Head(s) = "=" THEN <<>>
    ELSE IF IsDigitChar(Head(s)) THEN <<DigitValue(Head(s))>> \o LegalDigits(Tail(s))
    ELSE LegalDigits(Tail(s))

RECURSIVE DecodeDigits(_)
DecodeDigits(ds) ==
    CASE Len(ds) >= 4 ->
           LET n == ds[1] * 512 + ds[2] * 64 + ds[3] * 8 + ds[4] IN
           <<n \div (ByteMod * ByteMod), (n \div ByteMod) % ByteMod, n % ByteMod>>
           \o DecodeDigits(SubSeq(ds, 5, Len(ds)))
      [] Len(ds) = 3 ->
           LET n == (ds[1] * 64 + ds[2] * 8 + ds[3]) \div 2 IN
           <<n \div ByteMod, n % ByteMod>>
      [] Len(ds) = 2 -> <<(ds[1] * 8 + ds[2]) \div 4>>
      [] OTHER -> <<>>

\* Buffer.from(text, 'base64')
FromBase64(s) == DecodeDigits(LegalDigits(s))

\* Base64Write with each chunk encoded and padded on its own, nothing kept.
Base64WriteAlone(kept, bytes) == [out |-> ToBase64(kept \o bytes), kept |-> <<>>]

\* StringDecoder('base64').write: encodes the whole three-byte groups of the
\* kept bytes followed by the chunk, and keeps the rest for the next chunk.
Base64Write(kept, bytes) ==
    LET all == kept \o bytes
        whole == (Len(all) \div 3) * 3 IN
    [out |-> EncodeGroups(SubSeq(all, 1, whole)),
     kept |-> SubSeq(all, whole + 1, Len(all))]

\* StringDecoder('base64').end: the last chunk, padded.
Base64End(kept, bytes) == ToBase64(kept \o bytes)


\* ----------------------------------------------------------- cipher layer
RECURSIVE Repeat(_, _)
Repeat(b, n) == IF n = 0 THEN <<>> ELSE <<b>> \o Repeat(b, n - 1)

\* PKCS#7 padding: n bytes of value n, 1 <= n <= BlockSize.
Pad(bytes) ==
    LET n == BlockSize - (Len(bytes) % BlockSize) IN bytes \o Repeat(n, n)

\* Whether a decrypted final block ends in valid padding.
PadOK(block) ==
    /\ Len(block) = BlockSize
    /\ LET n == block[BlockSize] IN
       /\ n >= 1
       /\ n <= BlockSize
       /\ \A j \in (BlockSize - n + 1) .. BlockSize : block[j] = n

Unpad(block) == SubSeq(block, 1, BlockSize - block[BlockSize])

\* The block cipher, a keyed permutation of blocks, and its inverse.
KeyByte(key, j) == IF key = <<>> THEN 0 ELSE key[((j - 1) % Len(key)) + 1]
EncryptBlock(key, x) ==
    [j \in 1 .. Len(x) |-> (x[j] + KeyByte(key, j) + 3 * j) % ByteMod]
DecryptBlock(key, c) ==
    [j \in 1 .. Len(c) |-> (c[j] + 2 * ByteMod - KeyByte(key, j) - 3 * j) % ByteMod]

\* The chaining of CBC mode (xor in AES-CBC, addition modulo the byte here).
Chain(x, prev) == [j \in 1 .. Len(x) |-> (x[j] + prev[j]) % ByteMod]
Unchain(x, prev) == [j \in 1 .. Len(x) |-> (x[j] + ByteMod - prev[j]) % ByteMod]

\* CBC encryption of a whole number of blocks.
RECURSIVE CbcEncrypt(_, _, _)
CbcEncrypt(key, prev, bytes) ==
    IF Len(bytes) < BlockSize THEN <<>>
    ELSE LET c == EncryptBlock(key, Chain(SubSeq(bytes, 1, BlockSize), prev)) IN
         c \o CbcEncrypt(key, c, SubSeq(bytes, BlockSize + 1, Len(bytes)))

\* CBC decryption of a whole number of blocks.
RECURSIVE CbcDecrypt(_, _, _)
CbcDecrypt(key, prev, bytes) ==
    IF Len(bytes) < BlockSize THEN <<>>
    ELSE LET c == SubSeq(bytes, 1, BlockSize) IN
         Unchain(DecryptBlock(key, c), prev)
         \o CbcDecrypt(key, c, SubSeq(bytes, BlockSize + 1, Len(bytes)))

\* cipher.update(data) of a fresh Cipher: the encryption of the whole blocks
\* of the data; the rest waits for final().
CipherUpdate(key, iv, data) ==
    SubSeq(CbcEncrypt(key, iv, Pad(data)), 1, (Len(data) \div BlockSize) * BlockSize)

\* cipher.final() after that update: the padded last block.
CipherFinal(key, iv, data) ==
    LET all == CbcEncrypt(key, iv, Pad(data)) IN
    SubSeq(all, (Len(data) \div BlockSize) * BlockSize + 1, Len(all))

\* How many bytes decipher.update(data) of a fresh Decipher releases: every
\* whole block but the last, which waits for final() and its padding check.
ReleasedLen(data) ==
    IF Len(data) % BlockSize = 0
    THEN (IF Len(data) = 0 THEN 0 ELSE Len(data) - BlockSize)
    ELSE (Len(data) \div BlockSize) * BlockSize

DecipherUpdate(key, iv, data) ==
    SubSeq(CbcDecrypt(key, iv, data), 1, ReleasedLen(data))

\* The last block as final() decrypts it (before the padding is removed).
LastBlock(key, iv, data) ==
    SubSeq(CbcDecrypt(key, iv, data), Len(data) - BlockSize + 1, Len(data))

\* DecipherFinalError without the padding check.
DecipherFinalErrorUnchecked(key, iv, data) ==
    IF Len(data) = 0 \/ Len(data) % BlockSize # 0 THEN "ERR_OSSL_WRONG_FINAL_BLOCK_LENGTH"
    ELSE ""

\* decipher.final(): the error it throws ("" when none).
DecipherFinalError(key, iv, data) ==
    IF Len(data) = 0 \/ Len(data) % BlockSize # 0 THEN "ERR_OSSL_WRONG_FINAL_BLOCK_LENGTH"
    ELSE IF ~PadOK(LastBlock(key, iv, data)) THEN "ERR_OSSL_BAD_DECRYPT"
    ELSE ""

\* decipher.final(): the bytes it returns when it does not throw.
DecipherFinal(key, iv, data) == Unpad(LastBlock(key, iv, data))

\* The key lengths of AES-128, AES-192 and AES-256.
AesKeyLens == {bytesize \div 2, (3 * bytesize) \div 4, bytesize}

\* crypto.createCipheriv / createDecipheriv('aes-256-cbc', key, iv): the
\* error thrown for a key or an IV of the wrong length ("" when none).
CreateCipherError(key, iv) ==
    IF Len(key) # bytesize THEN "ERR_CRYPTO_INVALID_KEYLEN"
    ELSE IF Len(iv) # BlockSize THEN "ERR_CRYPTO_INVALID_IV"
    ELSE ""

\* subtle.importKey('raw', key, {name: 'AES-CBC'}): the rejection ("" when
\* none); WebCrypto accepts 128, 192 and 256 bit keys.
ImportAesError(key) == IF Len(key) \in AesKeyLens THEN "" ELSE "DataError"

\* subtle.decrypt({name: 'AES-CBC', iv}, key, data): the rejection ("" when
\* none).
SubtleDecryptError(key, iv, data) ==
    IF Len(iv) # BlockSize THEN "OperationError"
    ELSE IF Len(data) = 0 \/ Len(data) % BlockSize # 0 THEN "OperationError"
    ELSE IF ~PadOK(LastBlock(key, iv, data)) THEN "OperationError"
    ELSE ""

\* subtle.decrypt: the plaintext bytes when it does not reject.
SubtleDecrypt(key, iv, data) ==
    SubSeq(CbcDecrypt(key, iv, data), 1, Len(data) - BlockSize)
    \o Unpad(LastBlock(key, iv, data))

\* ----------------------------------------------------------- PBKDF2 layer
RECURSIVE WeightedSum(_, _)
WeightedSum(s, i) ==
    IF i > Len(s) THEN 0 ELSE (i * s[i] + WeightedSum(s, i + 1)) % ByteMod

\* The pseudo-random function (HMAC-SHA256), one byte wide.
Prf(pw, data) ==
    (1 + 7 * WeightedSum(pw, 1) + 3 * WeightedSum(data, 1) + Len(pw) + 5 * Len(data))
        % ByteMod

\* U_1 + ... + U_c of PBKDF2's block i.
RECURSIVE PrfChain(_, _, _)
PrfChain(pw, u, c) ==
    IF c = 0 THEN 0 ELSE (u + PrfChain(pw, Prf(pw, <<u>>), c - 1)) % ByteMod

\* PBKDF2(password, salt, c, dkLen)
Pbkdf2(pw, salt, c, dkLen) ==
    [i \in 1 .. dkLen |-> PrfChain(pw, Prf(pw, salt \o <<i % ByteMod>>), c)]


\* ------------------------------------------------------------------ state
VARIABLES
    nativeCrypto,   \* the provider nativeInit stored (module variable)
    browserCrypto,  \* the provider browserInit stored (module variable)
    call,           \* the operation in flight, or the one that just settled
    saved           \* what the caller kept of one earlier call

vars == <<nativeCrypto, browserCrypto, call, saved>>

\* The value of the module variable before init is called.
Undefined == [id |-> 0, caps |-> {}]

NativeCaps == {"randomBytes", "pbkdf2Sync", "createCipheriv", "createDecipheriv"}
BrowserCaps == {"importKey", "deriveBits", "decrypt"}

\* Two complete providers, and the providers that lack one function.
NativeFull == {[id |-> i, caps |-> NativeCaps] : i \in {1, 2}}
NativeAny == NativeFull \cup {[id |-> 1, caps |-> NativeCaps \ {c}] : c \in NativeCaps}
BrowserFull == {[id |-> i, caps |-> BrowserCaps] : i \in {1, 2}}
BrowserAny == BrowserFull \cup {[id |-> 1, caps |-> BrowserCaps \ {c}] : c \in BrowserCaps}

\* A call: its operation and arguments (a1 is the password or the key), where
\* it stands (pc), the provider stored when it started (prov), its local
\* values (layer: which key derivation of a fingerprint; tmp), what its sink
\* received, its result or error, and the provider primitives it called.
NoCall ==
    [op |-> "none", pc |-> "idle", a1 |-> <<>>, ivv |-> <<>>, text |-> <<>>,
     prov |-> Undefined, layer |-> 0, tmp |-> <<>>, sink |-> <<>>, result |-> <<>>,
     error |-> "", prims |-> <<>>]

NewCall(op, prov, a1, ivv, text) ==
    [NoCall EXCEPT !.op = op, !.prov = prov, !.a1 = a1, !.ivv = ivv, !.text = text]

NoSaved ==
    [kind |-> "none", op |-> "none", a1 |-> <<>>, ivv |-> <<>>, text |-> <<>>,
     out |-> <<>>]

Idle == call.pc = "idle"
Settled == call.pc \in {"resolved", "rejected"}

KeyOps == {"nativeGenerateKey", "browserGenerateKey"}
HashOps == {"nativeGenerateHash", "browserGenerateHash"}
DecryptOps == {"nativeDecryptText", "browserDecryptText"}

\* A primitive of provider p being called.
Prim(fn, p) == [fn |-> fn, prov |-> p.id]

\* throw / a rejected promise.
Throw(c, error) == [c EXCEPT !.pc = "rejected", !.error = error]

\* event that is not called for an empty chunk.
EventSkipEmpty(c, s) == IF s = <<>> THEN c ELSE [c EXCEPT !.sink = Append(@, s)]

\* event that delivers each chunk twice.
EventTwice(c, s) == [c EXCEPT !.sink = Append(Append(@, s), s)]

\* event(s): the sink is invoked with s.
event(c, s) == [c EXCEPT !.sink = Append(@, s)]

RECURSIVE Concat(_)
Concat(ss) == IF ss = <<>> THEN <<>> ELSE Head(ss) \o Concat(Tail(ss))

\* What the caller may keep of a call that resolved: nothing new, or its
\* arguments with its result (a key or fingerprint) or with everything its
\* sink received, concatenated (a ciphertext).
Keep(c) ==
    {saved} \cup
    (IF c.pc # "resolved" THEN {}
     ELSE IF c.op \in KeyOps \cup HashOps
     THEN {[kind |-> "key", op |-> c.op, a1 |-> c.a1, ivv |-> c.ivv, text |-> <<>>,
            out |-> c.result]}
     ELSE IF c.op = "nativeEncryptText"
     THEN {[kind |-> "cipher", op |-> c.op, a1 |-> c.a1, ivv |-> c.ivv, text |-> c.text,
            out |-> Concat(c.sink)]}
     ELSE {})

\* The call goes on as c.
Step(c) ==
    /\ call' = c
    /\ saved' \in Keep(c)
    /\ UNCHANGED <<nativeCrypto, browserCrypto>>

Init ==
    /\ nativeCrypto = Undefined
    /\ browserCrypto = Undefined
    /\ call = NoCall
    /\ saved = NoSaved

\* ----------------------------------------------------------------- native
NativeInit(crypto) ==
    /\ nativeCrypto' = crypto
    /\ UNCHANGED <<browserCrypto, call, saved>>

\* NativeKeyRun with the salt drawn from the provider's randomBytes (which
\* differs from provider to provider) instead of decoded from ivv.
NativeKeyRunRandomSalt(c, password, ivv) ==
    IF nativeCrypto = Undefined THEN Throw(c, "TypeError")
    ELSE IF "randomBytes" \notin nativeCrypto.caps THEN Throw(c, "NotSupported")
    ELSE IF "pbkdf2Sync" \notin nativeCrypto.caps THEN Throw(c, "TypeError")
    ELSE [c EXCEPT !.pc = "resolved",
             !.result = ToBase64(Pbkdf2(Utf8Encode(password),
                                        Repeat(nativeCrypto.id, BlockSize),
                                        iterations, bytesize)),
             !.prims = c.prims \o <<Prim("randomBytes", nativeCrypto),
                                    Prim("pbkdf2Sync", nativeCrypto)>>]

\* The body of nativeGenerateKey as part of call c; it runs without
\* suspending.  The function it checks for is randomBytes.
NativeKeyRun(c, password, ivv) ==
    IF nativeCrypto = Undefined THEN Throw(c, "TypeError")
    ELSE IF "randomBytes" \notin nativeCrypto.caps THEN Throw(c, "NotSupported")
    ELSE IF "pbkdf2Sync" \notin nativeCrypto.caps THEN Throw(c, "TypeError")
    ELSE [c EXCEPT !.pc = "resolved",
             !.result = ToBase64(Pbkdf2(Utf8Encode(password), FromBase64(ivv),
                                        iterations, bytesize)),
             !.prims = c.prims \o <<Prim("pbkdf2Sync", nativeCrypto)>>]

NativeGenerateKey(password, ivv) ==
    /\ Idle
    /\ Step(NativeKeyRun(NewCall("nativeGenerateKey", nativeCrypto, password, ivv, <<>>),
                         password, ivv))

\* AwaitKey with the password, not the first key, derived from again.
AwaitKeySamePassword(c) ==
    IF c.pc = "resolved"
    THEN [c EXCEPT !.pc = "await_key", !.tmp = c.a1, !.result = <<>>]
    ELSE c

\* The first key of a fingerprint, awaited: the password of the second
\* derivation.
AwaitKey(c) ==
    IF c.pc = "resolved"
    THEN [c EXCEPT !.pc = "await_key", !.tmp = c.result, !.result = <<>>]
    ELSE c

\* nativeGenerateHash up to its first await: the first key derivation.
NativeGenerateHash(password, ivv) ==
    /\ Idle
    /\ Step(AwaitKey(NativeKeyRun(
           [NewCall("nativeGenerateHash", nativeCrypto, password, ivv, <<>>)
               EXCEPT !.layer = 1],
           password, ivv)))

\* nativeGenerateHash resumed: the second key derivation, on the first key.
NativeGenerateHashResume ==
    /\ call.op = "nativeGenerateHash"
    /\ call.pc = "await_key"
    /\ Step(NativeKeyRun([call EXCEPT !.layer = 2, !.tmp = <<>>], call.tmp, call.ivv))

\* The body of nativeEncryptText; it runs without suspending.
NativeEncryptRun(key, ivv, text) ==
    LET c == NewCall("nativeEncryptText", nativeCrypto, key, ivv, text)
        k == FromBase64(key)
        iv == FromBase64(ivv)
        data == Utf8Encode(text)
        made == [c EXCEPT !.prims = <<Prim("createCipheriv", nativeCrypto)>>]
        first == Base64Write(<<>>, CipherUpdate(k, iv, data))
    IN
    IF nativeCrypto = Undefined THEN Throw(c, "TypeError")
    ELSE IF "createCipheriv" \notin nativeCrypto.caps THEN Throw(c, "NotSupported")
    ELSE IF CreateCipherError(k, iv) # "" THEN Throw(made, CreateCipherError(k, iv))
    ELSE [event(event(made, first.out), Base64End(first.kept, CipherFinal(k, iv, data)))
             EXCEPT !.pc = "resolved"]

NativeEncryptText(key, ivv, text) ==
    /\ Idle
    /\ Step(NativeEncryptRun(key, ivv, text))

\* The body of nativeDecryptText; it runs without suspending.  The function
\* it checks for is createCipheriv, the one it calls is createDecipheriv.
NativeDecryptRun(key, ivv, text) ==
    LET c == NewCall("nativeDecryptText", nativeCrypto, key, ivv, text)
        k == FromBase64(key)
        iv == FromBase64(ivv)
        data == FromBase64(text)
        made == [c EXCEPT !.prims = <<Prim("createDecipheriv", nativeCrypto)>>]
        first == Utf8Write(-1, DecipherUpdate(k, iv, data))
        updated == event(made, first.out)
    IN
    IF nativeCrypto = Undefined THEN Throw(c, "TypeError")
    ELSE IF "createCipheriv" \notin nativeCrypto.caps THEN Throw(c, "NotSupported")
    ELSE IF "createDecipheriv" \notin nativeCrypto.caps THEN Throw(c, "TypeError")
    ELSE IF CreateCipherError(k, iv) # "" THEN Throw(made, CreateCipherError(k, iv))
    ELSE IF DecipherFinalError(k, iv, data) # ""
    THEN Throw(updated, DecipherFinalError(k, iv, data))
    ELSE [event(updated, Utf8End(first.lead, DecipherFinal(k, iv, data)))
             EXCEPT !.pc = "resolved"]

NativeDecryptText(key, ivv, text) ==
    /\ Idle
    /\ Step(NativeDecryptRun(key, ivv, text))

\* ---------------------------------------------------------------- browser
BrowserInit(crypto) ==
    /\ browserCrypto' = crypto
    /\ UNCHANGED <<nativeCrypto, call, saved>>

\* browserGenerateKey up to its first await, as part of call c: the check of
\* subtle.importKey and the import of the password as a PBKDF2 key.
BrowserKeyStart(c, password) ==
    IF browserCrypto = Undefined THEN Throw(c, "TypeError")
    ELSE IF "importKey" \notin browserCrypto.caps THEN Throw(c, "NotSupported")
    ELSE [c EXCEPT !.pc = "await_importKey", !.tmp = Utf8Encode(password),
             !.prims = c.prims \o <<Prim("importKey", browserCrypto)>>]

BrowserGenerateKey(password, ivv) ==
    /\ Idle
    /\ Step(BrowserKeyStart(
           [NewCall("browserGenerateKey", browserCrypto, password, ivv, <<>>)
               EXCEPT !.layer = 1],
           password))

\* browserGenerateHash up to its first await, inside its first
\* browserGenerateKey.
BrowserGenerateHash(password, ivv) ==
    /\ Idle
    /\ Step(BrowserKeyStart(
           [NewCall("browserGenerateHash", browserCrypto, password, ivv, <<>>)
               EXCEPT !.layer = 1],
           password))

\* browserGenerateKey resumed after importKey: subtle.deriveBits on the
\* imported key.
BrowserDeriveBits ==
    /\ call.op \in {"browserGenerateKey", "browserGenerateHash"}
    /\ call.pc = "await_importKey"
    /\ Step(IF "deriveBits" \notin browserCrypto.caps THEN Throw(call, "TypeError")
            ELSE [call EXCEPT !.pc = "await_deriveBits",
                     !.tmp = Pbkdf2(call.tmp, FromBase64(call.ivv), iterations, bytesize),
                     !.prims = call.prims \o <<Prim("deriveBits", browserCrypto)>>])

\* browserGenerateKey resumed after deriveBits: it returns the base64 text of
\* the derived bits.  browserGenerateHash then calls browserGenerateKey again
\* with that text as the password.
BrowserKeyReturn ==
    /\ call.op \in {"browserGenerateKey", "browserGenerateHash"}
    /\ call.pc = "await_deriveBits"
    /\ LET key == ToBase64(call.tmp) IN
       Step(IF call.op = "browserGenerateHash" /\ call.layer = 1
            THEN BrowserKeyStart([call EXCEPT !.layer = 2], key)
            ELSE [call EXCEPT !.pc = "resolved", !.result = key, !.tmp = <<>>])

\* browserDecryptText up to its first await: the check of subtle.importKey
\* and the import of the key as an AES-CBC key.
BrowserDecryptText(key, ivv, text) ==
    /\ Idle
    /\ LET c == NewCall("browserDecryptText", browserCrypto, key, ivv, text)
           k == FromBase64(key)
           imported == [c EXCEPT !.prims = <<Prim("importKey", browserCrypto)>>]
       IN
       Step(IF browserCrypto = Undefined THEN Throw(c, "TypeError")
            ELSE IF "importKey" \notin browserCrypto.caps THEN Throw(c, "NotSupported")
            ELSE IF ImportAesError(k) # "" THEN Throw(imported, ImportAesError(k))
            ELSE [imported EXCEPT !.pc = "await_importKey", !.tmp = k])

\* browserDecryptText resumed after importKey: subtle.decrypt.
BrowserSubtleDecrypt ==
    /\ call.op = "browserDecryptText"
    /\ call.pc = "await_importKey"
    /\ LET iv == FromBase64(call.ivv)
           data == FromBase64(call.text)
           called == [call EXCEPT !.prims = call.prims \o <<Prim("decrypt", browserCrypto)>>]
       IN
       Step(IF "decrypt" \notin browserCrypto.caps THEN Throw(call, "TypeError")
            ELSE IF SubtleDecryptError(call.tmp, iv, data) # ""
            THEN Throw(called, SubtleDecryptError(call.tmp, iv, data))
            ELSE [called EXCEPT !.pc = "await_decrypt",
                     !.tmp = SubtleDecrypt(call.tmp, iv, data)])

\* browserDecryptText resumed after decrypt: the one call of the sink.
BrowserDecryptEmit ==
    /\ call.op = "browserDecryptText"
    /\ call.pc = "await_decrypt"
    /\ Step([event([call EXCEPT !.tmp = <<>>], TextDecoderDecode(call.tmp))
                EXCEPT !.pc = "resolved"])

\* The caller takes the settled call's outcome; the next call can start.
Settle ==
    /\ Settled
    /\ call' = NoCall
    /\ UNCHANGED <<nativeCrypto, browserCrypto, saved>>

\* ----------------------------------------------------------------- inputs
Alphabet == {"a", "E", "BOM", "SUR"}
Texts(n) == UNION {[1 .. k -> Alphabet] : k \in 0 .. n}

Salt1 == ToBase64(Repeat(0, BlockSize))
Salt2 == ToBase64(Repeat(3, BlockSize - 1) \o <<14>>)
ShortSalt == ToBase64(Repeat(5, BlockSize - 1))

\* derive(password, salt) of the protocol.
DerivedKey(password, ivv) ==
    ToBase64(Pbkdf2(Utf8Encode(password), FromBase64(ivv), iterations, bytesize))

Key1 == DerivedKey(<<"a">>, Salt1)
Key2 == DerivedKey(<<"E", "a">>, Salt1)
Aes128Key == ToBase64(Repeat(6, bytesize \div 2))
ShortKey == ToBase64(<<7>>)

Passwords == {<<"a">>, <<"E", "a">>}
Salts == {Salt1, Salt2, ShortSalt}
Keys == {Key1, Key2, Aes128Key, ShortKey}

\* A ciphertext with the byte j places before its end changed.
Tamper(text, j) ==
    LET bytes == FromBase64(text)
        i == Len(bytes) - j
    IN ToBase64([bytes EXCEPT ![i] = (@ + 1) % ByteMod])

\* The ciphertexts a caller hands to decrypt: the one it kept, that one with
\* a byte of its final block changed, or one with no block at all.
Ciphertexts ==
    IF saved.kind = "cipher"
    THEN {saved.out} \cup {Tamper(saved.out, j) : j \in 0 .. (BlockSize - 1)}
    ELSE {<<>>}

\* ---------------------------------------------------------- specifications
Resume ==
    \/ NativeGenerateHashResume
    \/ BrowserDeriveBits
    \/ BrowserKeyReturn
    \/ BrowserSubtleDecrypt
    \/ BrowserDecryptEmit
    \/ Settle

\* Every operation, on any provider, with few inputs.
Next ==
    \/ \E crypto \in NativeAny : NativeInit(crypto)
    \/ \E crypto \in BrowserAny : BrowserInit(crypto)
    \/ \E password \in {<<"a">>}, ivv \in {Salt1} : NativeGenerateKey(password, ivv)
    \/ \E password \in {<<"a">>}, ivv \in {Salt1} : NativeGenerateHash(password, ivv)
    \/ \E password \in {<<"a">>}, ivv \in {Salt1} : BrowserGenerateKey(password, ivv)
    \/ \E password \in {<<"a">>}, ivv \in {Salt1} : BrowserGenerateHash(password, ivv)
    \/ \E key \in {Key1, Aes128Key}, ivv \in {Salt1, ShortSalt}, text \in Texts(1) :
         NativeEncryptText(key, ivv, text)
    \/ \E key \in {Key1, Aes128Key}, ivv \in {Salt1, ShortSalt}, text \in Ciphertexts :
         NativeDecryptText(key, ivv, text)
    \/ \E key \in {Key1, Aes128Key}, ivv \in {Salt1, ShortSalt}, text \in Ciphertexts :
         BrowserDecryptText(key, ivv, text)
    \/ Resume

Spec == Init /\ [][Next]_vars

\* Key and fingerprint derivation on complete providers, which init may
\* replace at any time.
NextKdf ==
    \/ \E crypto \in NativeFull : NativeInit(crypto)
    \/ \E crypto \in BrowserFull : BrowserInit(crypto)
    \/ \E password \in Passwords, ivv \in Salts : NativeGenerateKey(password, ivv)
    \/ \E password \in Passwords, ivv \in Salts : NativeGenerateHash(password, ivv)
    \/ \E password \in Passwords, ivv \in Salts : BrowserGenerateKey(password, ivv)
    \/ \E password \in Passwords, ivv \in Salts : BrowserGenerateHash(password, ivv)
    \/ NativeGenerateHashResume
    \/ BrowserDeriveBits
    \/ BrowserKeyReturn
    \/ Settle

SpecKdf == Init /\ [][NextKdf]_vars

\* Both modules initialised with a complete provider.
InitCipher ==
    /\ nativeCrypto = [id |-> 1, caps |-> NativeCaps]
    /\ browserCrypto = [id |-> 1, caps |-> BrowserCaps]
    /\ call = NoCall
    /\ saved = NoSaved

\* Encryption of every text of at most MaxLen characters under the derived
\* keys, and decryption with any key and salt.
NextCipher ==
    \/ \E ivv \in {Salt1} : NativeGenerateKey(<<"a">>, ivv)
    \/ \E ivv \in {Salt1} : NativeGenerateHash(<<"a">>, ivv)
    \/ \E ivv \in {Salt1} : BrowserGenerateKey(<<"a">>, ivv)
    \/ \E ivv \in {Salt1} : BrowserGenerateHash(<<"a">>, ivv)
    \/ \E key \in {Key1, Key2}, ivv \in {Salt1, Salt2}, text \in Texts(MaxLen) :
         NativeEncryptText(key, ivv, text)
    \/ \E key \in Keys, ivv \in Salts, text \in Ciphertexts :
         NativeDecryptText(key, ivv, text)
    \/ \E key \in Keys, ivv \in Salts, text \in Ciphertexts :
         BrowserDecryptText(key, ivv, text)
    \/ Resume

SpecCipher == InitCipher /\ [][NextCipher]_vars

\* ----------------------------------------------------------------- claims
ValidKey(key) == Len(FromBase64(key)) = bytesize
ValidSalt(ivv) == Len(FromBase64(ivv)) = BlockSize

\* A text without unpaired surrogates.
WellFormed(text) == \A i \in DOMAIN text : text[i] # "SUR"

\* The call decrypts, with the key and salt of the encryption the caller
\* kept, exactly what that encryption delivered to its sink.
DecryptsSaved ==
    /\ saved.kind = "cipher"
    /\ call.a1 = saved.a1
    /\ call.ivv = saved.ivv
    /\ call.text = saved.out

\* C1 as claimed: for every plaintext, nativeDecryptText of what
\* nativeEncryptText emitted (same key, same salt) resolves and its emissions,
\* concatenated, are the plaintext.
C1_RoundTripEveryText ==
    (call.op = "nativeDecryptText" /\ Settled /\ DecryptsSaved)
        => (call.pc = "resolved" /\ Concat(call.sink) = saved.text)

\* C1 amended: the round trip holds for every plaintext without unpaired
\* surrogates (empty, one block, several blocks), every 32-byte key and every
\* 16-byte salt.
C1_RoundTrip ==
    (call.op = "nativeDecryptText" /\ Settled /\ DecryptsSaved /\ WellFormed(saved.text))
        => (call.pc = "resolved" /\ Concat(call.sink) = saved.text)

\* A round trip of a plaintext of more than one block, both emissions
\* non-empty.
C1_Witness ==
    /\ call.op = "nativeDecryptText"
    /\ call.pc = "resolved"
    /\ DecryptsSaved
    /\ WellFormed(saved.text)
    /\ Len(Utf8Encode(saved.text)) > BlockSize
    /\ Len(call.sink) = 2
    /\ call.sink[1] # <<>>
    /\ call.sink[2] # <<>>

\* The call derives what the kept key or fingerprint was derived from, with
\* an operation of the same kind (in either environment).
SameDerivation(ops) ==
    /\ saved.kind = "key"
    /\ saved.op \in ops
    /\ call.op \in ops
    /\ call.pc = "resolved"
    /\ call.a1 = saved.a1
    /\ call.ivv = saved.ivv

\* C2: the two environments derive the same key and the same fingerprint
\* from the same password and salt, and browserDecryptText of what
\* nativeEncryptText emitted delivers the same total text as nativeDecryptText
\* does.
C2_CrossEnvironment ==
    /\ SameDerivation(KeyOps) => call.result = saved.out
    /\ SameDerivation(HashOps) => call.result = saved.out
    /\ (call.op = "browserDecryptText" /\ Settled /\ DecryptsSaved)
         => LET own == NativeDecryptRun(call.a1, call.ivv, call.text) IN
            /\ call.pc = own.pc
            /\ Concat(call.sink) = Concat(own.sink)

\* The final block of the ciphertext, decrypted with the key and salt given,
\* does not end in valid padding.
BadPadding(key, ivv, text) ==
    LET data == FromBase64(text) IN
    /\ Len(data) > 0
    /\ Len(data) % BlockSize = 0
    /\ Len(FromBase64(ivv)) = BlockSize
    /\ ~PadOK(LastBlock(FromBase64(key), FromBase64(ivv), data))

\* C3: a decryption whose final block fails padding validation is rejected,
\* with the one error of its environment whether the ciphertext was changed
\* or the key is another one; it never resolves.
C3_PaddingFailure ==
    /\ (/\ call.op = "nativeDecryptText"
        /\ Settled
        /\ ValidKey(call.a1)
        /\ BadPadding(call.a1, call.ivv, call.text))
         => (call.pc = "rejected" /\ call.error = "ERR_OSSL_BAD_DECRYPT")
    /\ (/\ call.op = "browserDecryptText"
        /\ Settled
        /\ Len(FromBase64(call.a1)) \in AesKeyLens
        /\ BadPadding(call.a1, call.ivv, call.text))
         => (call.pc = "rejected" /\ call.error = "OperationError")

\* A ciphertext with a byte of its final block changed, decrypted with the
\* right key, is rejected.
C3_Witness ==
    /\ call.op = "nativeDecryptText"
    /\ call.pc = "rejected"
    /\ saved.kind = "cipher"
    /\ call.a1 = saved.a1
    /\ call.ivv = saved.ivv
    /\ call.text # saved.out
    /\ BadPadding(call.a1, call.ivv, call.text)

\* The provider functions each operation needs.
Needs(op) ==
    CASE op \in {"nativeGenerateKey", "nativeGenerateHash"} -> {"pbkdf2Sync"}
      [] op = "nativeEncryptText" -> {"createCipheriv"}
      [] op = "nativeDecryptText" -> {"createDecipheriv"}
      [] op \in {"browserGenerateKey", "browserGenerateHash"} -> {"importKey", "deriveBits"}
      [] op = "browserDecryptText" -> {"importKey", "decrypt"}
      [] OTHER -> {}

\* C4: a call on a provider that lacks a function the operation needs fails
\* with the "is not supported" error, before any primitive is called and
\* before the sink is invoked; on a provider with every function it needs it
\* does not fail with that error.
C4_CapabilityCheck ==
    (Settled /\ call.prov # Undefined)
        => IF Needs(call.op) \subseteq call.prov.caps
           THEN call.error # "NotSupported"
           ELSE /\ call.pc = "rejected"
                /\ call.error = "NotSupported"
                /\ call.prims = <<>>
                /\ call.sink = <<>>

InvalidParameterErrors == {"ERR_CRYPTO_INVALID_KEYLEN", "ERR_CRYPTO_INVALID_IV", "DataError"}

\* C5: an encryption or decryption whose key does not decode to 32 bytes or
\* whose salt does not decode to 16 bytes fails with an invalid-parameter
\* error, raised before any primitive of the provider is called, and the sink
\* is never invoked.
C5_ParameterValidation ==
    (/\ Settled
     /\ call.op \in DecryptOps \cup {"nativeEncryptText"}
     /\ call.prov # Undefined
     /\ Needs(call.op) \subseteq call.prov.caps
     /\ ~(ValidKey(call.a1) /\ ValidSalt(call.ivv)))
        => /\ call.pc = "rejected"
           /\ call.error \in InvalidParameterErrors
           /\ call.prims = <<>>
           /\ call.sink = <<>>

\* C6: every primitive call of one operation is made on one and the same
\* provider, whatever init calls interleave with it.
C6_OneProvider ==
    \A i, j \in DOMAIN call.prims : call.prims[i].prov = call.prims[j].prov

\* C7: generateHash(password, salt), native or browser, is
\* generateKey(generateKey(password, salt), salt), the first key's base64 text
\* being the second password.
C7_Fingerprint ==
    (call.op \in HashOps /\ call.pc = "resolved")
        => call.result = DerivedKey(DerivedKey(call.a1, call.ivv), call.ivv)

\* A fingerprint derived in the browser.
C7_Witness ==
    /\ call.op = "browserGenerateHash"
    /\ call.pc = "resolved"
    /\ call.layer = 2
    /\ Len(call.prims) = 4

\* C8: the same operation (generateKey, generateHash) on the same password
\* and salt yields, at any later point, the result it yielded before.
C8_Determinism ==
    /\ \A op \in KeyOps : SameDerivation({op}) => call.result = saved.out
    /\ \A op \in HashOps : SameDerivation({op}) => call.result = saved.out

\* A fingerprint derived again, the provider replaced between its two key
\* derivations.
C8_Witness ==
    /\ SameDerivation({"nativeGenerateHash"})
    /\ Len(call.prims) = 2
    /\ call.prims[1].prov # call.prims[2].prov

\* What C9 says of a settled or running call's sink.
C9_Emissions ==
    LET k == FromBase64(call.a1)
        iv == FromBase64(call.ivv)
    IN
    /\ (call.op = "nativeEncryptText" /\ call.pc = "resolved")
         => LET data == Utf8Encode(call.text)
                first == Base64Write(<<>>, CipherUpdate(k, iv, data))
            IN call.sink = <<first.out, Base64End(first.kept, CipherFinal(k, iv, data))>>
    /\ (call.op = "nativeDecryptText" /\ call.pc = "resolved")
         => LET data == FromBase64(call.text)
                first == Utf8Write(-1, DecipherUpdate(k, iv, data))
            IN call.sink = <<first.out, Utf8End(first.lead, DecipherFinal(k, iv, data))>>
    /\ (call.op = "browserDecryptText" /\ call.pc = "resolved") => Len(call.sink) = 1
    /\ (call.op = "browserDecryptText" /\ call.pc # "resolved") => call.sink = <<>>

\* C9: a successful native encryption or decryption invokes the sink exactly
\* twice, with what update returned and then with what final returned, a
\* successful browser decryption exactly once, all before the call resolves
\* and none after.
C9_EmissionOrder ==
    /\ []C9_Emissions
    /\ [][call.pc = "resolved" => (call'.sink = call.sink \/ call' = NoCall)]_vars

\* A native encryption that resolved after two non-empty emissions.
C9_Witness ==
    /\ call.op = "nativeEncryptText"
    /\ call.pc = "resolved"
    /\ Len(call.sink) = 2
    /\ call.sink[1] # <<>>
    /\ call.sink[2] # <<>>

\* C10 as claimed: a decryption that fails has not invoked its sink.
C10_NoOutputOnFailure ==
    (call.op \in DecryptOps /\ call.pc = "rejected") => call.sink = <<>>

FinalErrors == {"ERR_OSSL_BAD_DECRYPT", "ERR_OSSL_WRONG_FINAL_BLOCK_LENGTH"}

\* C10 amended: a browserDecryptText that fails has not invoked its sink; a
\* nativeDecryptText that fails in final() (padding, block length) has invoked
\* it exactly once, with the text of the blocks update released, and one that
\* fails earlier has not invoked it.
C10_OutputOnFailure ==
    /\ (call.op = "browserDecryptText" /\ call.pc = "rejected") => call.sink = <<>>
    /\ (call.op = "nativeDecryptText" /\ call.pc = "rejected")
         => IF call.error \in FinalErrors
            THEN call.sink =
                   <<Utf8Write(-1, DecipherUpdate(FromBase64(call.a1), FromBase64(call.ivv),
                                                  FromBase64(call.text))).out>>
            ELSE call.sink = <<>>

\* A native decryption that failed its padding check after it delivered text.
C10_Witness ==
    /\ call.op = "nativeDecryptText"
    /\ call.pc = "rejected"
    /\ call.error = "ERR_OSSL_BAD_DECRYPT"
    /\ Len(call.sink) = 1
    /\ call.sink[1] # <<>>

=============================================================================
